---- MODULE Spec2Model ----
(***************************************************************************)
(* lilua: a single-pass compiler from an expression tree to register       *)
(* bytecode, and the steppable register VM that executes it.               *)
(*                                                                         *)
(* The model follows the current iteration of the compiler, the first      *)
(* listing of src/unnamed/part_000 (lines 1-277), together with the value  *)
(* module src/unnamed/part_002.  Code generation is modelled call by call: *)
(* ctl is the JavaScript call stack of the node.do(gen) closures, and each *)
(* action is one straight-line segment of a closure between two calls.     *)
(***************************************************************************)
EXTENDS Integers, Sequences, FiniteSets, TLC

VARIABLES
    node,      \* the AST handed to compile()
    gen,       \* the CodeGen object of the compile() call in progress
    ctl,       \* call stack of the code generator, innermost call last
    peakTemp,  \* history: running maximum of gen.tempCount in this compile()
    err,       \* message of the error compile() threw, "" if none
    frames,    \* the frames returned by the compile() calls so far
    vms,       \* the VM instances constructed so far
    ret,       \* per VM: what its last step() call did
    calls,     \* per VM: number of step() calls made
    verr       \* per VM: message of the error its last failing step() threw

vars == <<node, gen, ctl, peakTemp, err, frames, vms, ret, calls, verr>>

-----------------------------------------------------------------------------
(* Bounds of the model *)

\* step() calls a driver makes after the VM has halted
MaxExtraCalls == 2
\* compile() calls made on the same node tree
MaxCompiles == 2
\* statements in a generated program block
MaxStmts == 3
\* nesting depth of additions in a generated expression
MaxDepth == 3

-----------------------------------------------------------------------------
(* Values: src/unnamed/part_002 *)

Num(value) == [type |-> "Num", value |-> value]
\* a Boolean's payload is kept as the number JavaScript arithmetic reads it as
Bool(value) == [type |-> "Bool", value |-> IF value THEN 1 ELSE 0]
Nil == [type |-> "Nil"]
num(value) == Num(value)

\* JavaScript null: the content of a fresh register, the initial gen.lhs
null == [type |-> "null"]

veq(a, b) ==
    IF a.type # b.type THEN FALSE
    ELSE CASE a.type = "Num" -> a.value = b.value
           [] a.type = "Bool" -> a.value = b.value
           [] a.type = "Nil" -> TRUE

-----------------------------------------------------------------------------
(* AST nodes: mkNode gives every node its name and closes over its args *)

mkNode(name, args) == [name |-> name, args |-> args]
con(value) == mkNode("const", <<value>>)
add(lhs, rhs) == mkNode("add", <<lhs, rhs>>)
leti(name, value) == mkNode("let", <<name, value>>)
vari(name) == mkNode("var", <<name>>)
set(name, value) == mkNode("set", <<name, value>>)
block(body) == mkNode("block", <<body>>)

-----------------------------------------------------------------------------
(* Code generator: class CodeGen *)

\* operand locations carried on gen.stack, in gen.lhs and in emitted args
local(index) == [type |-> "local", index |-> index]
temp(index) == [type |-> "temp", index |-> index]
const(value) == [type |-> "const", value |-> value]

CodeGen ==
    [consts |-> <<>>, code |-> <<>>, locals |-> <<>>, tempCount |-> 0,
     maxTemp |-> -1, stack |-> <<>>, lhs |-> null]

pushLocal(g, name) == [g EXCEPT !.locals = Append(@, name)]
pushConst(g, value) == [g EXCEPT !.consts = Append(@, value)]

push(g, loc) == [g EXCEPT !.stack = Append(@, loc)]
top(g) == g.stack[Len(g.stack)]
pop(g) == [g EXCEPT !.stack = SubSeq(@, 1, Len(@) - 1)]

updateMaxTemp(g, t) ==
    IF t.index > g.maxTemp THEN [g EXCEPT !.maxTemp = t.index] ELSE g

\* the loop of emit over args[k..]: arg.type on a null arg is a TypeError
RECURSIVE emitArgs(_, _, _)
emitArgs(g, args, k) ==
    IF k > Len(args) THEN g
    ELSE emitArgs(IF args[k].type = "temp" THEN updateMaxTemp(g, args[k]) ELSE g,
                  args, k + 1)

emitThrows(args) == \E k \in 1..Len(args) : args[k] = null

emit(g, instr, args) ==
    [emitArgs(g, args, 1) EXCEPT !.code = Append(@, [instr |-> instr, args |-> args])]

\* mutant: a temporary placed at its own index, among the locals
argRegTempAtIndex(g, x) ==
    CASE x.type = "temp" -> x.index
      [] x.type = "local" -> x.index
      [] x.type = "const" -> x.value

\* mutant: a temporary placed one register too high
argRegTempOffByOne(g, x) ==
    CASE x.type = "temp" -> x.index + Len(g.locals) + 1
      [] x.type = "local" -> x.index
      [] x.type = "const" -> x.value

\* the map of mkFrame over one instruction's args
argReg(g, x) ==
    CASE x.type = "temp" -> x.index + Len(g.locals)
      [] x.type = "local" -> x.index
      [] x.type = "const" -> x.value

mkFrameThrows(g) ==
    \E k \in 1..Len(g.code) : \E j \in 1..Len(g.code[k].args) :
        g.code[k].args[j].type \notin {"temp", "local", "const"}

Frame(in_count, out_count, size, consts, locals, code) ==
    [in_count |-> in_count, out_count |-> out_count, size |-> size,
     consts |-> consts, locals |-> locals, code |-> code]

\* mutant: the size computed from the highest temporary index, not the count
mkFrameSizeOffByOne(g) ==
    LET code == [k \in 1..Len(g.code) |->
                    [name |-> g.code[k].instr,
                     args |-> [j \in 1..Len(g.code[k].args) |->
                                  argReg(g, g.code[k].args[j])]]]
    IN Frame(0, 0, Len(g.locals) + g.maxTemp, g.consts, g.locals, code)

mkFrame(g) ==
    LET size == Len(g.locals) + g.maxTemp + 1
        code == [k \in 1..Len(g.code) |->
                    [name |-> g.code[k].instr,
                     args |-> [j \in 1..Len(g.code[k].args) |->
                                  argReg(g, g.code[k].args[j])]]]
    IN Frame(0, 0, size, g.consts, g.locals, code)

\* index (1-based) of the first pool entry equal to value, 0 if there is none
constIndex(g, value) ==
    LET S == {i \in 1..Len(g.consts) : veq(g.consts[i], value)}
    IN IF S = {} THEN 0 ELSE CHOOSE i \in S : \A j \in S : i <= j

\* index (1-based) of the first local called name, 0 if there is none
localIndex(g, name) ==
    LET S == {i \in 1..Len(g.locals) : g.locals[i] = name}
    IN IF S = {} THEN 0 ELSE CHOOSE i \in S : \A j \in S : i <= j

\* mutant: every Constant node appends to the pool
conDoNoScan(g, value) == push(pushConst(g, value), const(-Len(g.consts) - 1))

\* the closure of a const node
conDo(g, value) ==
    LET i == constIndex(g, value)
    IN IF i # 0 THEN push(g, const(-(i - 1) - 1))
       ELSE push(pushConst(g, value), const(-Len(g.consts) - 1))

\* the tail shared by let and set once value.do(gen) has returned
\* mutant: the move emitted also when the value is already in l
storeIntoNoElision(g, l) ==
    LET v == top(g)
        g1 == pop(g)
        g2 == IF v.type = "const" THEN emit(g1, "LOADK", <<l, v>>)
              ELSE emit(g1, "MOVE", <<l, v>>)
    IN push(g2, l)

storeInto(g, l) ==
    LET v == top(g)
        g1 == pop(g)
        g2 == IF v.type = "const" THEN emit(g1, "LOADK", <<l, v>>)
              ELSE IF v.type # "local" \/ v.index # l.index
                   THEN emit(g1, "MOVE", <<l, v>>)
                   ELSE g1
    IN push(g2, l)

-----------------------------------------------------------------------------
(* The generator's call stack *)

Top == ctl[Len(ctl)]
Rest == SubSeq(ctl, 1, Len(ctl) - 1)
Call(n) == [op |-> "do", node |-> n]
Doing(name) == ctl # <<>> /\ Top.op = "do" /\ Top.node.name = name

vmVars == <<vms, ret, calls, verr>>

Throw(msg) ==
    /\ err' = msg
    /\ ctl' = <<>>
    /\ UNCHANGED <<node, gen, peakTemp, frames, vmVars>>

\* mutant: one generator shared by every compile() call
CompileSharedGen ==
    /\ ctl = <<>> /\ err = "" /\ vms = <<>>
    /\ Len(frames) < MaxCompiles
    /\ peakTemp' = 0
    /\ ctl' = <<[op |-> "compile"], Call(node)>>
    /\ UNCHANGED <<node, gen, err, frames, vmVars>>

\* compile(node): a new CodeGen, then node.do(gen)
Compile ==
    /\ ctl = <<>> /\ err = "" /\ vms = <<>>
    /\ Len(frames) < MaxCompiles
    /\ gen' = CodeGen
    /\ peakTemp' = 0
    /\ ctl' = <<[op |-> "compile"], Call(node)>>
    /\ UNCHANGED <<node, err, frames, vmVars>>

\* compile(node) after node.do(gen) has returned: return gen.mkFrame()
MkFrame ==
    /\ ctl # <<>> /\ Top.op = "compile"
    /\ IF mkFrameThrows(gen) THEN Throw("Unknown type in instruction arguments")
       ELSE /\ frames' = Append(frames, mkFrame(gen))
            /\ ctl' = <<>>
            /\ UNCHANGED <<node, gen, peakTemp, err, vmVars>>

DoCon ==
    /\ Doing("const")
    /\ gen' = conDo(gen, Top.node.args[1])
    /\ ctl' = Rest
    /\ UNCHANGED <<node, peakTemp, err, frames, vmVars>>

DoVar ==
    /\ Doing("var")
    /\ LET i == localIndex(gen, Top.node.args[1])
       IN IF i = 0 THEN Throw("Variable is not defined")
          ELSE /\ gen' = push(gen, local(i - 1))
               /\ ctl' = Rest
               /\ UNCHANGED <<node, peakTemp, err, frames, vmVars>>

\* add: lhs.do(gen)
DoAdd ==
    /\ Doing("add")
    /\ ctl' = Rest \o <<[op |-> "add_l", node |-> Top.node], Call(Top.node.args[1])>>
    /\ UNCHANGED <<node, gen, peakTemp, err, frames, vmVars>>

\* mutant: withTemp hands out the temporary below the counter
AddLhsDoneTempBelowCount ==
    /\ ctl # <<>> /\ Top.op = "add_l"
    /\ LET l == top(gen)
           t == temp(IF gen.tempCount > 0 THEN gen.tempCount - 1 ELSE 0)
       IN /\ gen' = [pop(gen) EXCEPT !.tempCount = @ + 1, !.lhs = t]
          /\ peakTemp' = IF gen.tempCount + 1 > peakTemp THEN gen.tempCount + 1
                         ELSE peakTemp
          /\ ctl' = Rest \o <<[op |-> "add_r", node |-> Top.node, l |-> l,
                               t |-> t, old |-> gen.lhs],
                              Call(Top.node.args[2])>>
    /\ UNCHANGED <<node, err, frames, vmVars>>

\* add: l = pop; withTemp: tempCount++; withLHS(t, ...): rhs.do(gen)
AddLhsDone ==
    /\ ctl # <<>> /\ Top.op = "add_l"
    /\ LET l == top(gen)
           t == temp(gen.tempCount)
       IN /\ gen' = [pop(gen) EXCEPT !.tempCount = @ + 1, !.lhs = t]
          /\ peakTemp' = IF gen.tempCount + 1 > peakTemp THEN gen.tempCount + 1
                         ELSE peakTemp
          /\ ctl' = Rest \o <<[op |-> "add_r", node |-> Top.node, l |-> l,
                               t |-> t, old |-> gen.lhs],
                              Call(Top.node.args[2])>>
    /\ UNCHANGED <<node, err, frames, vmVars>>

\* add: lhs restored; r = pop; emit(iADD, gen.lhs, l, r); push(gen.lhs); tempCount--
AddRhsDone ==
    /\ ctl # <<>> /\ Top.op = "add_r"
    /\ LET g1 == [gen EXCEPT !.lhs = Top.old]
           r == top(g1)
           args == <<g1.lhs, Top.l, r>>
       IN IF emitThrows(args) THEN Throw("TypeError")
          ELSE /\ gen' = [push(emit(pop(g1), "ADD", args), g1.lhs)
                            EXCEPT !.tempCount = @ - 1]
               /\ ctl' = Rest
               /\ UNCHANGED <<node, peakTemp, err, frames, vmVars>>

\* mutant: let without its duplicate check
DoLetNoDupCheck ==
    /\ Doing("let")
    /\ LET l == local(Len(gen.locals))
       IN /\ gen' = [pushLocal(gen, Top.node.args[1]) EXCEPT !.lhs = l]
          /\ ctl' = Rest \o <<[op |-> "let_v", node |-> Top.node, l |-> l,
                               old |-> gen.lhs],
                              Call(Top.node.args[2])>>
          /\ UNCHANGED <<node, peakTemp, err, frames, vmVars>>

\* let: duplicate check; pushLocal; withLHS(l, ...): value.do(gen)
DoLet ==
    /\ Doing("let")
    /\ LET name == Top.node.args[1]
           l == local(Len(gen.locals))
       IN IF localIndex(gen, name) # 0 THEN Throw("Variable is already defined")
          ELSE /\ gen' = [pushLocal(gen, name) EXCEPT !.lhs = l]
               /\ ctl' = Rest \o <<[op |-> "let_v", node |-> Top.node, l |-> l,
                                    old |-> gen.lhs],
                                   Call(Top.node.args[2])>>
               /\ UNCHANGED <<node, peakTemp, err, frames, vmVars>>

\* let: v = pop; LOADK or MOVE unless v is l; push(l); lhs restored
LetDone ==
    /\ ctl # <<>> /\ Top.op = "let_v"
    /\ gen' = [storeInto(gen, Top.l) EXCEPT !.lhs = Top.old]
    /\ ctl' = Rest
    /\ UNCHANGED <<node, peakTemp, err, frames, vmVars>>

\* mutant: set takes a new local for the name, as let does
DoSetAllocates ==
    /\ Doing("set")
    /\ LET i == localIndex(gen, Top.node.args[1])
           l == local(Len(gen.locals))
       IN IF i = 0 THEN Throw("Variable is not defined")
          ELSE /\ gen' = [pushLocal(gen, Top.node.args[1]) EXCEPT !.lhs = l]
               /\ ctl' = Rest \o <<[op |-> "set_v", node |-> Top.node, l |-> l,
                                    old |-> gen.lhs],
                                   Call(Top.node.args[2])>>
               /\ UNCHANGED <<node, peakTemp, err, frames, vmVars>>

\* set: look the name up; withLHS(l, ...): value.do(gen)
DoSet ==
    /\ Doing("set")
    /\ LET i == localIndex(gen, Top.node.args[1])
           l == local(i - 1)
       IN IF i = 0 THEN Throw("Variable is not defined")
          ELSE /\ gen' = [gen EXCEPT !.lhs = l]
               /\ ctl' = Rest \o <<[op |-> "set_v", node |-> Top.node, l |-> l,
                                    old |-> gen.lhs],
                                   Call(Top.node.args[2])>>
               /\ UNCHANGED <<node, peakTemp, err, frames, vmVars>>

\* set: v = pop; LOADK or MOVE unless v is l; push(l); lhs restored
SetDone ==
    /\ ctl # <<>> /\ Top.op = "set_v"
    /\ gen' = [storeInto(gen, Top.l) EXCEPT !.lhs = Top.old]
    /\ ctl' = Rest
    /\ UNCHANGED <<node, peakTemp, err, frames, vmVars>>

\* block: empty check; body[0].do(gen)
DoBlock ==
    /\ Doing("block")
    /\ LET body == Top.node.args[1]
       IN IF Len(body) = 0 THEN Throw("Empty block")
          ELSE /\ ctl' = Rest \o <<[op |-> "block_i", node |-> Top.node, i |-> 1],
                                   Call(body[1])>>
               /\ UNCHANGED <<node, gen, peakTemp, err, frames, vmVars>>

\* block: result = pop; the next expr.do(gen), or push(result) after the last
BlockNext ==
    /\ ctl # <<>> /\ Top.op = "block_i"
    /\ LET body == Top.node.args[1]
           result == top(gen)
       IN IF Top.i < Len(body)
          THEN /\ gen' = pop(gen)
               /\ ctl' = Rest \o <<[Top EXCEPT !.i = @ + 1], Call(body[Top.i + 1])>>
          ELSE /\ gen' = push(pop(gen), result)
               /\ ctl' = Rest
    /\ UNCHANGED <<node, peakTemp, err, frames, vmVars>>

Generate ==
    \/ DoCon \/ DoVar \/ DoAdd \/ AddLhsDone \/ AddRhsDone
    \/ DoLet \/ LetDone \/ DoSet \/ SetDone \/ DoBlock \/ BlockNext

-----------------------------------------------------------------------------
(* Virtual machine: class VM, class Frame, the instructions *)

\* mutant: the register file left empty, to grow as registers are written
VMEmptyRegs(fn) ==
    [fn |-> fn, regs |-> <<>>, stack |-> <<>>, pc |-> 0, regOffset |-> 0]

VM(fn) ==
    [fn |-> fn, regs |-> [i \in 1..fn.size |-> null], stack |-> <<>>, pc |-> 0,
     regOffset |-> 0]

\* what a call that may throw gives back: err is "" when it returned
Returned(vm, val) == [err |-> "", vm |-> vm, val |-> val]
Thrown(vm, msg) == [err |-> msg, vm |-> vm, val |-> null]

testRegIndex(vm, i) ==
    IF i < 0 \/ i >= vm.fn.size THEN "Invalid register index" ELSE ""

testConstIndex(vm, i) ==
    LET j == -i - 1
    IN IF j < 0 \/ j >= Len(vm.fn.consts) THEN "Invalid constant index" ELSE ""

getLocal(vm, i) ==
    IF testRegIndex(vm, i) # "" THEN Thrown(vm, testRegIndex(vm, i))
    ELSE Returned(vm, vm.regs[i + 1])

\* mutant: a write checked against the lower bound only, as regs[i] = value
\* of a JavaScript array, which grows to hold index i
setLocalGrows(vm, i, value) ==
    IF i < 0 THEN Thrown(vm, "Invalid register index")
    ELSE Returned([vm EXCEPT !.regs =
                      [k \in 1..(IF i + 1 > Len(@) THEN i + 1 ELSE Len(@)) |->
                          IF k = i + 1 THEN value
                          ELSE IF k <= Len(@) THEN @[k] ELSE null]], null)

setLocal(vm, i, value) ==
    IF testRegIndex(vm, i) # "" THEN Thrown(vm, testRegIndex(vm, i))
    ELSE Returned([vm EXCEPT !.regs[i + 1] = value], null)

\* mutant: the constant index decoded as -i
getConstOffByOne(vm, i) ==
    IF testConstIndex(vm, i) # "" THEN Thrown(vm, testConstIndex(vm, i))
    ELSE Returned(vm, IF -i < Len(vm.fn.consts) THEN vm.fn.consts[-i + 1] ELSE null)

getConst(vm, i) ==
    IF testConstIndex(vm, i) # "" THEN Thrown(vm, testConstIndex(vm, i))
    ELSE Returned(vm, vm.fn.consts[(-i - 1) + 1])

\* mutant: reference 0 taken for a constant
getValZeroIsConst(vm, i) == IF i <= 0 THEN getConst(vm, i) ELSE getLocal(vm, i)

getVal(vm, i) == IF i < 0 THEN getConst(vm, i) ELSE getLocal(vm, i)

\* mutant: the fetch wraps around to the first instruction
getInstrWraps(fn, pc) ==
    IF Len(fn.code) = 0 THEN null ELSE fn.code[(pc % Len(fn.code)) + 1]

getInstr(fn, pc) == IF pc >= Len(fn.code) THEN null ELSE fn.code[pc + 1]

\* mutant: a Boolean passes for a number
checkNumCoerce(x) ==
    IF x = null THEN "TypeError"
    ELSE IF x.type \notin {"Num", "Bool"} THEN "Expected a number" ELSE ""

\* reading x.type of null is a JavaScript TypeError
checkNum(x) ==
    IF x = null THEN "TypeError"
    ELSE IF x.type # "Num" THEN "Expected a number" ELSE ""

pcInc(r) == IF r.err # "" THEN r ELSE Returned([r.vm EXCEPT !.pc = @ + 1], null)

\* mutant: MOVE empties the register it copied from
iMOVEClearsSource(vm, a, b) ==
    LET v == getVal(vm, b)
        w == setLocal(vm, a, v.val)
    IN IF v.err # "" THEN v
       ELSE IF w.err # "" \/ b < 0 \/ b = a THEN pcInc(w)
       ELSE pcInc(setLocal(w.vm, b, null))

iMOVE(vm, a, b) ==
    LET v == getVal(vm, b)
    IN IF v.err # "" THEN v ELSE pcInc(setLocal(vm, a, v.val))

\* mutant: LOADK without its pc++
iLOADKNoAdvance(vm, a, k) ==
    LET v == getConst(vm, k)
    IN IF v.err # "" THEN v ELSE setLocal(vm, a, v.val)

iLOADK(vm, a, k) ==
    LET v == getConst(vm, k)
    IN IF v.err # "" THEN v ELSE pcInc(setLocal(vm, a, v.val))

\* mutant: ADD stores its first operand in the destination, then checks
iADDStoresBeforeCheck(vm, a, b, c) ==
    LET vb == getVal(vm, b)
        vc == getVal(vm, c)
        w == IF vb.err # "" THEN vb ELSE setLocal(vm, a, vb.val)
    IN IF vb.err # "" THEN vb
       ELSE IF vc.err # "" THEN Thrown(w.vm, vc.err)
       ELSE IF w.err # "" THEN w
       ELSE IF checkNum(vb.val) # "" THEN Thrown(w.vm, checkNum(vb.val))
       ELSE IF checkNum(vc.val) # "" THEN Thrown(w.vm, checkNum(vc.val))
       ELSE pcInc(setLocal(w.vm, a, num(vb.val.value + vc.val.value)))

iADD(vm, a, b, c) ==
    LET vb == getVal(vm, b)
        vc == getVal(vm, c)
    IN IF vb.err # "" THEN vb
       ELSE IF vc.err # "" THEN vc
       ELSE IF checkNum(vb.val) # "" THEN Thrown(vm, checkNum(vb.val))
       ELSE IF checkNum(vc.val) # "" THEN Thrown(vm, checkNum(vc.val))
       ELSE pcInc(setLocal(vm, a, num(vb.val.value + vc.val.value)))

\* instr.do(vm)
do(instr, vm) ==
    CASE instr.name = "MOVE" -> iMOVE(vm, instr.args[1], instr.args[2])
      [] instr.name = "LOADK" -> iLOADK(vm, instr.args[1], instr.args[2])
      [] instr.name = "ADD" -> iADD(vm, instr.args[1], instr.args[2], instr.args[3])

\* new VM(compile(node))
NewVM ==
    /\ ctl = <<>> /\ frames # <<>> /\ vms = <<>>
    /\ vms' = Append(vms, VM(frames[Len(frames)]))
    /\ ret' = Append(ret, "none")
    /\ calls' = Append(calls, 0)
    /\ verr' = Append(verr, "")
    /\ UNCHANGED <<node, gen, ctl, peakTemp, err, frames>>

\* mutant: the register file held by the frame, one array for all its VMs
StepSharedRegs(v) ==
    /\ calls[v] < Len(vms[v].fn.code) + MaxExtraCalls
    /\ calls' = [calls EXCEPT ![v] = @ + 1]
    /\ LET instr == getInstr(vms[v].fn, vms[v].pc)
       IN IF instr = null
          THEN /\ ret' = [ret EXCEPT ![v] = "false"]
               /\ UNCHANGED <<vms, verr>>
          ELSE LET r == do(instr, vms[v])
                   shared == [w \in 1..Len(vms) |->
                                IF w = v THEN r.vm
                                ELSE [vms[w] EXCEPT !.regs = r.vm.regs]]
               IN IF r.err # ""
                  THEN /\ ret' = [ret EXCEPT ![v] = "throw"]
                       /\ verr' = [verr EXCEPT ![v] = r.err]
                       /\ vms' = shared
                  ELSE /\ ret' = [ret EXCEPT ![v] = "true"]
                       /\ vms' = shared
                       /\ UNCHANGED verr
    /\ UNCHANGED <<node, gen, ctl, peakTemp, err, frames>>

\* vm.step() on instance v
Step(v) ==
    /\ calls[v] < Len(vms[v].fn.code) + MaxExtraCalls
    /\ calls' = [calls EXCEPT ![v] = @ + 1]
    /\ LET instr == getInstr(vms[v].fn, vms[v].pc)
       IN IF instr = null
          THEN /\ ret' = [ret EXCEPT ![v] = "false"]
               /\ UNCHANGED <<vms, verr>>
          ELSE LET r == do(instr, vms[v])
               IN IF r.err # ""
                  THEN /\ ret' = [ret EXCEPT ![v] = "throw"]
                       /\ verr' = [verr EXCEPT ![v] = r.err]
                       /\ vms' = [vms EXCEPT ![v] = r.vm]
                  ELSE /\ ret' = [ret EXCEPT ![v] = "true"]
                       /\ vms' = [vms EXCEPT ![v] = r.vm]
                       /\ UNCHANGED verr
    /\ UNCHANGED <<node, gen, ctl, peakTemp, err, frames>>

-----------------------------------------------------------------------------
(* The node trees handed to compile() *)

Names == {"a", "b"}
Vals == {num(2), num(3), Bool(TRUE), Nil}
Atoms == {con(v) : v \in Vals} \cup {vari(n) : n \in Names}

\* every node form over atoms
Forms(X) ==
    X \cup {add(x, y) : x, y \in X}
      \cup {leti(n, x) : n \in Names, x \in X}
      \cup {set(n, x) : n \in Names, x \in X}
      \cup {block(<<>>)} \cup {block(<<x>>) : x \in X}
      \cup {block(<<x, y>>) : x, y \in X}

\* every form at the root, as an initializer, as an operand of an addition
\* and as a statement after a declaration
Shallow ==
    LET T == Forms(Atoms)
    IN T \cup {leti(n, t) : n \in Names, t \in T}
         \cup {block(<<leti("a", con(v)), t>>) : v \in Vals, t \in T}
         \cup {block(<<leti("a", con(v)), leti("b", add(t, x))>>) :
                  v \in Vals, t \in T, x \in {con(num(2)), vari("a")}}
         \cup {block(<<leti("a", con(v)), leti("b", add(x, t))>>) :
                  v \in Vals, t \in T, x \in {con(num(2)), vari("a")}}

\* the statements of testFn and a few more of their kind
testStmts ==
    <<leti("a", add(con(num(2)), con(num(2)))),
      leti("b", add(con(num(3)), vari("a"))),
      set("a", add(vari("a"), vari("b"))),
      set("b", add(vari("b"), add(vari("a"), vari("b")))),
      leti("c", vari("b"))>>

testFn == block(testStmts)

SeqStmts ==
    {testStmts[i] : i \in 1..Len(testStmts)}
      \cup {set("a", vari("a")), set("b", con(num(2))), vari("a")}

RECURSIVE Seqs(_, _)
Seqs(S, n) ==
    IF n = 0 THEN {<<>>}
    ELSE LET P == Seqs(S, n - 1)
         IN P \cup {Append(p, x) : p \in {q \in P : Len(q) = n - 1}, x \in S}

Programs == {block(body) : body \in Seqs(SeqStmts, MaxStmts)} \cup {testFn}

\* additions nested up to depth d, one operand of each being an atom
CombAtoms == {vari("a"), vari("b"), con(num(2))}

RECURSIVE Comb(_)
Comb(d) ==
    IF d = 0 THEN CombAtoms
    ELSE LET C == Comb(d - 1)
         IN CombAtoms \cup {add(x, c) : x \in CombAtoms, c \in C}
                      \cup {add(c, x) : x \in CombAtoms, c \in C}

\* additions of two additions
Pairs == LET A == Comb(1) \ CombAtoms IN {add(x, y) : x, y \in A}

\* an addition whose right operand adds two additions
Nested == {add(vari("a"), p) : p \in Pairs}

Deep ==
    LET E == Comb(MaxDepth) \cup Pairs \cup Nested
    IN {block(<<leti("a", con(num(2))), leti("b", con(num(3))), set("a", e)>>) :
           e \in E}
       \cup {block(<<leti("a", con(num(2))), leti("b", con(num(3))), leti("c", e)>>) :
           e \in E}

\* a Let and a Set whose value is a Block of two children
BlockKids ==
    {con(num(3)), vari("a"), add(con(num(2)), con(num(3))), add(vari("a"), vari("a"))}

BlockValued ==
    {block(<<leti("a", con(num(2))), leti("b", block(<<x, y>>))>>) :
        x, y \in BlockKids}
      \cup {block(<<leti("a", con(num(2))), set("a", block(<<x, y>>))>>) :
        x, y \in BlockKids}

\* a Set whose value declares a local
SetOfLet ==
    {block(<<leti("a", con(num(2))), set("a", leti("b", x))>>) : x \in BlockKids}

Nodes == Shallow \cup Programs \cup Deep \cup BlockValued \cup SetOfLet

-----------------------------------------------------------------------------
(* The program: compile a node tree, build a VM over the frame, step it *)

Init ==
    /\ node \in Nodes
    /\ gen = CodeGen
    /\ ctl = <<>>
    /\ peakTemp = 0
    /\ err = ""
    /\ frames = <<>>
    /\ vms = <<>>
    /\ ret = <<>>
    /\ calls = <<>>
    /\ verr = <<>>

Next ==
    \/ Compile
    \/ Generate
    \/ MkFrame
    \/ NewVM
    \/ \E v \in 1..Len(vms) : Step(v)

Spec == Init /\ [][Next]_vars

-----------------------------------------------------------------------------
(* Reference semantics of the node tree: direct left-to-right evaluation *)

AllNames == {"a", "b", "c"}
emptyEnv == [n \in AllNames |-> null]

\* the result of evaluating a node: the environment after it, its value, and
\* whether every constant met was a Number and every variable read was set
Evaluated(env, val, ok) == [env |-> env, val |-> val, ok |-> ok]

RECURSIVE Eval(_, _)
RECURSIVE EvalBody(_, _, _)

Eval(n, env) ==
    CASE n.name = "const" ->
           Evaluated(env, n.args[1], n.args[1].type = "Num")
      [] n.name = "var" ->
           Evaluated(env, env[n.args[1]], env[n.args[1]] # null)
      [] n.name = "add" ->
           LET l == Eval(n.args[1], env)
               r == Eval(n.args[2], l.env)
           IN IF l.ok /\ r.ok /\ l.val.type = "Num" /\ r.val.type = "Num"
              THEN Evaluated(r.env, num(l.val.value + r.val.value), TRUE)
              ELSE Evaluated(r.env, null, FALSE)
      [] n.name \in {"let", "set"} ->
           LET v == Eval(n.args[2], env)
           IN Evaluated([v.env EXCEPT ![n.args[1]] = v.val], v.val, v.ok)
      [] n.name = "block" ->
           IF n.args[1] = <<>> THEN Evaluated(env, null, FALSE)
           ELSE EvalBody(n.args[1], 1, Evaluated(env, null, TRUE))

\* the statements body[k..] in order, from the result acc of those before
EvalBody(body, k, acc) ==
    IF k > Len(body) THEN acc
    ELSE LET v == Eval(body[k], acc.env)
         IN EvalBody(body, k + 1, Evaluated(v.env, v.val, acc.ok /\ v.ok))

-----------------------------------------------------------------------------
(* Claims *)

Halted(v) == ret[v] = "false"

\* the register of the VM v that holds the k-th declared local (k from 1)
LocalReg(v, k) == vms[v].regs[k]

\* C1: when a tree of number constants, additions, declarations, reads,
\* assignments and non-empty blocks compiles and reads no variable before it
\* has a value, the halted VM holds in every local's register the value that
\* direct left-to-right evaluation of the tree gives that variable.
C1_CompiledCodeRefinesEvaluation ==
    \A v \in 1..Len(vms) :
        (Halted(v) /\ Eval(node, emptyEnv).ok) =>
            \A k \in 1..Len(vms[v].fn.locals) :
                LocalReg(v, k) = Eval(node, emptyEnv).env[vms[v].fn.locals[k]]


\* the program of the execution example
C2_Node == block(<<testStmts[1], testStmts[2]>>)

\* C2: stepping the VM of Block([Let(a, 2 + 2), Let(b, 3 + a)]) to its halt
\* leaves Number 4 in a's register and Number 7 in b's register.
C2_TestProgramResult ==
    \A v \in 1..Len(vms) :
        (node = C2_Node /\ calls[v] > Len(vms[v].fn.code)) =>
            /\ Halted(v)
            /\ vms[v].fn.locals = <<"a", "b">>
            /\ LocalReg(v, 1) = Num(4)
            /\ LocalReg(v, 2) = Num(7)

C2_Witness ==
    /\ node = C2_Node
    /\ vms # <<>> /\ Halted(1)
    /\ vms[1].pc = 2
    /\ vms[1].regs = <<Num(4), Num(7)>>

Min(x, y) == IF x < y THEN x ELSE y

\* C3: over a frame of n instructions, while no step has failed, the k-th
\* step() returns true exactly when k <= n, pc counts the true returns, and
\* pc stays n once step() has returned false.
C3_StepReturnsTrueExactlyNTimes ==
    \A v \in 1..Len(vms) :
        LET n == Len(vms[v].fn.code)
        IN verr[v] = "" =>
            /\ vms[v].pc = Min(calls[v], n)
            /\ calls[v] = 0 => ret[v] = "none"
            /\ (calls[v] >= 1 /\ calls[v] <= n) => ret[v] = "true"
            /\ calls[v] > n => ret[v] = "false"

C3_Witness ==
    /\ vms # <<>>
    /\ Len(vms[1].fn.code) >= 3
    /\ calls[1] = Len(vms[1].fn.code) + 2
    /\ ret[1] = "false"
    /\ vms[1].pc = Len(vms[1].fn.code)


-----------------------------------------------------------------------------
(* Static well-formedness of a node tree, in generation order *)

\* what a walk has seen: the names whose Let has completed, and whether so
\* far no Let repeated a name, no Var or Set named an unbound variable and no
\* Block was empty
Scanned(bound, ok) == [bound |-> bound, ok |-> ok]

RECURSIVE Scan(_, _)
RECURSIVE ScanBody(_, _, _)

Scan(n, st) ==
    CASE n.name = "const" -> st
      [] n.name = "var" -> Scanned(st.bound, st.ok /\ n.args[1] \in st.bound)
      [] n.name = "add" -> Scan(n.args[2], Scan(n.args[1], st))
      [] n.name = "let" ->
           LET v == Scan(n.args[2], st)
           IN Scanned(v.bound \cup {n.args[1]},
                      v.ok /\ n.args[1] \notin st.bound /\ n.args[1] \notin v.bound)
      [] n.name = "set" ->
           Scan(n.args[2], Scanned(st.bound, st.ok /\ n.args[1] \in st.bound))
      [] n.name = "block" ->
           IF n.args[1] = <<>> THEN Scanned(st.bound, FALSE)
           ELSE ScanBody(n.args[1], 1, st)

ScanBody(body, k, st) ==
    IF k > Len(body) THEN st ELSE ScanBody(body, k + 1, Scan(body[k], st))

WellFormed(n) == Scan(n, Scanned({}, TRUE)).ok

\* C4: a tree with no duplicate Let name, no undefined Var/Set reference and
\* no empty Block compiles without error, whatever form is at its root or
\* is a child of a Block.
C4_WellFormedTreeCompiles == WellFormed(node) => err = ""

\* the frame the latest compile() returned
LastFrame == frames[Len(frames)]

\* C5 as stated: the frame's size is the number of locals plus the running
\* maximum of the temporary counter.
C5_SizeIsLocalsPlusPeakTempCount ==
    (ctl = <<>> /\ frames # <<>>) =>
        LastFrame.size = Len(LastFrame.locals) + peakTemp

\* the operands of a frame's instructions, and those that are registers
FrameArgs(f) ==
    UNION {{f.code[k].args[j] : j \in 1..Len(f.code[k].args)} : k \in 1..Len(f.code)}

FrameRegs(f) == {x \in FrameArgs(f) : x >= 0}

Max(S) == CHOOSE x \in S : \A y \in S : y <= x

\* temporaries the instructions of f name: one more than the highest
\* register at or above the locals, 0 if there is none
UsedTemps(f) ==
    LET T == {r \in FrameRegs(f) : r >= Len(f.locals)}
    IN IF T = {} THEN 0 ELSE Max(T) - Len(f.locals) + 1

\* C5 amended: the frame's size is the number of locals plus the number of
\* temporaries its instructions name, which never exceeds the running maximum
\* of the temporary counter.
C5_SizeIsLocalsPlusNamedTemps ==
    (ctl = <<>> /\ frames # <<>>) =>
        /\ LastFrame.size = Len(LastFrame.locals) + UsedTemps(LastFrame)
        /\ LastFrame.size <= Len(LastFrame.locals) + peakTemp

C5_Witness ==
    /\ ctl = <<>> /\ frames # <<>>
    /\ UsedTemps(LastFrame) = 2
    /\ peakTemp = 3
    /\ LastFrame.size = Len(LastFrame.locals) + 2


\* no two entries of a pool are structurally equal
NoEqualConsts(consts) ==
    \A i, j \in 1..Len(consts) : veq(consts[i], consts[j]) => i = j

\* C6: the constant pool never holds two equal values; a Constant node whose
\* value is already in the pool gets that entry's index and appends nothing,
\* and one whose value is new appends it and gets the new index.
C6_ConstantPoolDeduplicated ==
    /\ [](NoEqualConsts(gen.consts) /\ \A k \in 1..Len(frames) :
                                           NoEqualConsts(frames[k].consts))
    /\ [][Doing("const") =>
            LET value == Top.node.args[1]
                S == {i \in 1..Len(gen.consts) : veq(gen.consts[i], value)}
            IN /\ Len(gen'.stack) = Len(gen.stack) + 1
               /\ IF S # {}
                  THEN /\ gen'.consts = gen.consts
                       /\ \E i \in S : top(gen') = const(-(i - 1) - 1)
                  ELSE /\ gen'.consts = Append(gen.consts, value)
                       /\ top(gen') = const(-(Len(gen'.consts) - 1) - 1)]_vars

C6_Witness ==
    /\ frames # <<>>
    /\ Len(LastFrame.consts) = 1
    /\ \E k \in 1..Len(LastFrame.code) :
           LastFrame.code[k] = [name |-> "ADD", args |-> <<0, -1, -1>>]

\* C7: generating Let(x, ...) while x is in the locals table fails with the
\* duplicate-declaration error and returns no frame, so the locals of every
\* returned frame are pairwise distinct.
C7_RedeclarationFails ==
    /\ [][(Doing("let") /\ localIndex(gen, Top.node.args[1]) # 0) =>
            (err' = "Variable is already defined" /\ ctl' = <<>> /\ frames' = frames)]_vars
    /\ [][err # "" => (err' = err /\ frames' = frames)]_vars
    /\ [](\A k \in 1..Len(frames) : \A i, j \in 1..Len(frames[k].locals) :
              frames[k].locals[i] = frames[k].locals[j] => i = j)

C7_Witness ==
    /\ err = "Variable is already defined"
    /\ frames = <<>>
    /\ gen.locals = <<"a", "b">>

\* the locals whose Let is still generating its initializer, and the names
\* of the others
PendingLets == {ctl[k].l.index : k \in {k \in 1..Len(ctl) : ctl[k].op = "let_v"}}
CompletedLets ==
    {gen.locals[i] : i \in {i \in 1..Len(gen.locals) : (i - 1) \notin PendingLets}}

\* C8: generating Var(x) or Set(x, ...) when no Let(x, ...) has completed
\* fails with the undefined-variable error, also inside the initializer of
\* Let(x, ...) itself.
C8_UseBeforeLetCompletesFails ==
    [][((Doing("var") \/ Doing("set")) /\ Top.node.args[1] \notin CompletedLets) =>
          err' = "Variable is not defined"]_vars

\* checkNum's error, and the TypeError of reading .type of null
TypeErrors == {"Expected a number", "TypeError"}

\* C9: a step of ADD with an operand that resolves to a Boolean or Nil fails
\* with a type error and changes neither register nor pc; a step of ADD that
\* succeeds had two Number operands and stores their sum in the destination.
C9_AddTypeChecks ==
    [][\A v \in 1..Len(vms) :
        LET vm == vms[v]
            instr == getInstr(vm.fn, vm.pc)
        IN (calls'[v] = calls[v] + 1 /\ instr # null /\ instr.name = "ADD") =>
            LET vb == getVal(vm, instr.args[2])
                vc == getVal(vm, instr.args[3])
            IN (vb.err = "" /\ vc.err = "") =>
                /\ (vb.val.type \in {"Bool", "Nil"} \/ vc.val.type \in {"Bool", "Nil"}) =>
                      (ret'[v] = "throw" /\ verr'[v] \in TypeErrors /\ vms'[v] = vm)
                /\ ret'[v] = "true" =>
                      /\ vb.val.type = "Num" /\ vc.val.type = "Num"
                      /\ vms'[v].regs = [vm.regs EXCEPT ![instr.args[1] + 1] =
                                            Num(vb.val.value + vc.val.value)]
                /\ ret'[v] # "true" => vms'[v] = vm]_vars

C9_Witness ==
    /\ vms # <<>>
    /\ ret[1] = "throw" /\ verr[1] = "Expected a number"
    /\ LET instr == getInstr(vms[1].fn, vms[1].pc)
       IN /\ instr.name = "ADD"
          /\ instr.args[2] >= 0
          /\ vms[1].regs[instr.args[2] + 1] = Bool(TRUE)
          /\ vms[1].regs[instr.args[1] + 1] = null

\* C10: compiling the same node tree again returns a frame identical to the
\* first, and every compile() starts from a new, empty generator.
C10_RecompilationIdentical ==
    /\ \A i, j \in 1..Len(frames) : frames[i] = frames[j]
    /\ ctl = <<[op |-> "compile"], Call(node)>> => gen = CodeGen

C10_Witness ==
    /\ Len(frames) = 2
    /\ frames[1] = frames[2]
    /\ Len(frames[1].consts) = 2
    /\ Len(frames[1].locals) = 2
    /\ frames[1].size = 3


\* the operands of instr that the VM resolves as registers only (dst), as
\* constants only (k of LOADK), and as operand references (src)
DstArgs(instr) == {instr.args[1]}
ConstArgs(instr) == IF instr.name = "LOADK" THEN {instr.args[2]} ELSE {}
RefArgs(instr) ==
    CASE instr.name = "MOVE" -> {instr.args[2]}
      [] instr.name = "LOADK" -> {}
      [] instr.name = "ADD" -> {instr.args[2], instr.args[3]}

RegInRange(f, i) == 0 <= i /\ i < f.size
ConstInRange(f, i) == i < 0 /\ (-i - 1) < Len(f.consts)

IndexErrors == {"Invalid register index", "Invalid constant index"}

\* C11: in every frame compile returns, every register operand is in
\* [0, size) and every constant operand decodes to an index of the pool, so
\* no step of a VM over it fails with an invalid-index error.
C11_CompiledOperandsInRange ==
    /\ \A n \in 1..Len(frames) : \A k \in 1..Len(frames[n].code) :
          LET f == frames[n]
              instr == f.code[k]
          IN /\ \A i \in DstArgs(instr) : RegInRange(f, i)
             /\ \A i \in ConstArgs(instr) : ConstInRange(f, i)
             /\ \A i \in RefArgs(instr) : RegInRange(f, i) \/ ConstInRange(f, i)
    /\ \A v \in 1..Len(vms) : verr[v] \notin IndexErrors

C11_Witness ==
    /\ vms # <<>> /\ Halted(1) /\ verr[1] = ""
    /\ LET f == vms[1].fn
       IN /\ f.size > Len(f.locals) /\ Len(f.consts) > 0
          /\ \E k \in 1..Len(f.code) :
                f.code[k].name = "ADD" /\ f.code[k].args[1] = f.size - 1
          /\ \E k \in 1..Len(f.code) :
                -Len(f.consts) \in ConstArgs(f.code[k]) \cup RefArgs(f.code[k])

-----------------------------------------------------------------------------
(* VMs over frames built by hand with new Frame(...), whose operands need
   not be in range, several VMs sharing one frame *)

MaxVMs == 2

HandConsts == <<num(2), Bool(TRUE)>>
HandLocals == <<"a", "b">>

mkInstr(name, args) == [name |-> name, args |-> args]

\* instructions over two registers and two constants: operands in range, just
\* outside it on either side, and the reference 0
HandInstrs ==
    {mkInstr("MOVE", <<a, b>>) : a \in {-1, 0, 1, 2}, b \in {-3, -1, 0, 2}}
      \cup {mkInstr("LOADK", <<a, k>>) : a \in {-1, 0, 1, 2}, k \in {-3, -1, 0}}
      \cup {mkInstr("ADD", <<a, b, c>>) : a \in {0, 2}, b \in {-2, -1, 1, 2},
                                          c \in {-3, -1}}

HandFrames ==
    {Frame(0, 0, Len(HandLocals), HandConsts, HandLocals, <<i, j>>) :
        i, j \in HandInstrs}

InitVM ==
    /\ node = testFn
    /\ gen = CodeGen
    /\ ctl = <<>>
    /\ peakTemp = 0
    /\ err = ""
    /\ frames \in {<<f>> : f \in HandFrames}
    /\ vms = <<>>
    /\ ret = <<>>
    /\ calls = <<>>
    /\ verr = <<>>

\* new VM(fn) over the one frame, again while fewer than MaxVMs exist
NewVMOverFrame ==
    /\ Len(vms) < MaxVMs
    /\ vms' = Append(vms, VM(frames[1]))
    /\ ret' = Append(ret, "none")
    /\ calls' = Append(calls, 0)
    /\ verr' = Append(verr, "")
    /\ UNCHANGED <<node, gen, ctl, peakTemp, err, frames>>

NextVM ==
    \/ NewVMOverFrame
    \/ \E v \in 1..Len(vms) : Step(v)

SpecVM == InitVM /\ [][NextVM]_vars

-----------------------------------------------------------------------------
(* Claims about the VM's accessors *)

\* every operand instr has the VM read is in range
ReadsInRange(f, instr) ==
    /\ \A i \in ConstArgs(instr) : ConstInRange(f, i)
    /\ \A i \in RefArgs(instr) : RegInRange(f, i) \/ ConstInRange(f, i)

AllInRange(f, instr) ==
    ReadsInRange(f, instr) /\ \A i \in DstArgs(instr) : RegInRange(f, i)

\* C12: the register file of every VM always has exactly frame.size slots; a
\* step whose instruction reads or writes a register outside [0, size), or
\* reads a constant whose decoded index is outside the pool, fails with an
\* error and leaves registers and pc as they were: nothing is extended,
\* clamped or wrapped; the error is the index error of the first access out
\* of range unless ADD's type check of in-range operands fails first.
C12_AccessesBoundsChecked ==
    /\ [](\A v \in 1..Len(vms) : Len(vms[v].regs) = vms[v].fn.size)
    /\ [][\A v \in 1..Len(vms) :
            LET vm == vms[v]
                instr == getInstr(vm.fn, vm.pc)
            IN (calls'[v] = calls[v] + 1 /\ instr # null) =>
                /\ ~AllInRange(vm.fn, instr) =>
                      /\ ret'[v] = "throw"
                      /\ vms'[v] = vm
                      /\ verr'[v] \in IndexErrors \cup TypeErrors
                /\ ~ReadsInRange(vm.fn, instr) => verr'[v] \in IndexErrors
                /\ (\E i \in ConstArgs(instr) : ~ConstInRange(vm.fn, i)) =>
                      verr'[v] = "Invalid constant index"
                /\ (instr.name # "ADD" /\ ~AllInRange(vm.fn, instr)
                      /\ ReadsInRange(vm.fn, instr)) =>
                      verr'[v] = "Invalid register index"
                /\ (ret'[v] = "throw" /\ verr'[v] \in TypeErrors) =>
                      (instr.name = "ADD" /\ ReadsInRange(vm.fn, instr))
                /\ ret'[v] = "true" => AllInRange(vm.fn, instr)]_vars

\* after a step that succeeded, a step failed on a write to register size
C12_Witness ==
    /\ Len(vms) = 2
    /\ ret[1] = "throw" /\ verr[1] = "Invalid register index"
    /\ vms[1].pc = 1
    /\ getInstr(vms[1].fn, 1) \in
          {mkInstr("MOVE", <<2, -1>>), mkInstr("LOADK", <<2, -1>>)}
    /\ Len(vms[1].regs) = 2

\* what operand reference i denotes in vm: register i from 0 up, the pool
\* entry number -i - 1 below 0
Denoted(vm, i) == IF i >= 0 THEN vm.regs[i + 1] ELSE vm.fn.consts[(-i - 1) + 1]

\* C13: an operand reference i >= 0 resolves to the content of register i
\* and i < 0 to pool entry -i - 1 (0 is register 0, -1 is entry 0, and 0 is
\* never a constant); a reference outside the register file or the pool
\* fails with the error of its own kind.
C13_OperandReferenceResolution ==
    [][\A v \in 1..Len(vms) :
        LET vm == vms[v]
            instr == getInstr(vm.fn, vm.pc)
        IN (calls'[v] = calls[v] + 1 /\ instr # null) =>
            /\ (instr.name = "MOVE" /\ RegInRange(vm.fn, instr.args[1])) =>
                  LET i == instr.args[2]
                  IN IF RegInRange(vm.fn, i) \/ ConstInRange(vm.fn, i)
                     THEN /\ ret'[v] = "true"
                          /\ vms'[v].regs =
                                [vm.regs EXCEPT ![instr.args[1] + 1] = Denoted(vm, i)]
                     ELSE /\ ret'[v] = "throw"
                          /\ verr'[v] = IF i >= 0 THEN "Invalid register index"
                                        ELSE "Invalid constant index"
            /\ (instr.name = "ADD" /\ ret'[v] = "true") =>
                  vms'[v].regs[instr.args[1] + 1] =
                      Num(Denoted(vm, instr.args[2]).value
                            + Denoted(vm, instr.args[3]).value)
            /\ (instr.name = "LOADK" /\ instr.args[2] >= 0) =>
                  (ret'[v] = "throw" /\ verr'[v] = "Invalid constant index")]_vars

\* MOVE 0, -1 then MOVE 1, 0: entry 0 of the pool, then register 0
C13_Witness ==
    /\ vms # <<>>
    /\ vms[1].fn.code = <<mkInstr("MOVE", <<0, -1>>), mkInstr("MOVE", <<1, 0>>)>>
    /\ vms[1].pc = 2
    /\ vms[1].regs = <<HandConsts[1], HandConsts[1]>>

\* C14: no step changes the frame (constants, locals, size, code); a step of
\* one VM changes nothing of another VM over the same frame; and after the
\* same number of steps two VMs over the same frame are in the same state
\* with the same step() result, however their steps were interleaved.
C14_FrameSharedReadOnly ==
    /\ [][/\ frames' = frames
          /\ \A v \in 1..Len(vms) :
                /\ vms'[v].fn = vms[v].fn
                /\ calls'[v] = calls[v] =>
                      (vms'[v] = vms[v] /\ ret'[v] = ret[v] /\ verr'[v] = verr[v])]_vars
    /\ [](\A v, w \in 1..Len(vms) :
            /\ vms[v].fn = frames[1]
            /\ calls[v] = calls[w] =>
                  (vms[v] = vms[w] /\ ret[v] = ret[w] /\ verr[v] = verr[w]))

\* one VM has run both instructions while the other has run the first only
C14_Witness ==
    /\ Len(vms) = 2
    /\ calls[1] = 2 /\ calls[2] = 1
    /\ ret[1] = "true" /\ ret[2] = "true"
    /\ vms[1].regs = <<Num(4), HandConsts[1]>>
    /\ vms[2].regs = <<null, HandConsts[1]>>

-----------------------------------------------------------------------------
(* Claims about construction of the VM *)

\* a VM on which step() has not been called yet
IsNew(v) == calls[v] = 0

\* C15 as stated: a new VM is Running with pc = 0 and a register file of
\* frame.size slots, each holding the Nil value.
C15_NewVMRegistersNil ==
    \A v \in 1..Len(vms) : IsNew(v) =>
        /\ ret[v] = "none" /\ vms[v].pc = 0
        /\ Len(vms[v].regs) = vms[v].fn.size
        /\ \A i \in 1..Len(vms[v].regs) : vms[v].regs[i] = Nil

\* C15 amended: a new VM is Running with pc = 0 and a register file of
\* frame.size slots, each holding null, which is no Value: neither Nil nor
\* any other of the tagged values.
C15_NewVMRegistersNull ==
    \A v \in 1..Len(vms) : IsNew(v) =>
        /\ ret[v] = "none" /\ vms[v].pc = 0
        /\ Len(vms[v].regs) = vms[v].fn.size
        /\ \A i \in 1..Len(vms[v].regs) :
              vms[v].regs[i] = null /\ vms[v].regs[i].type \notin {"Num", "Bool", "Nil"}

C15_Witness ==
    /\ vms # <<>> /\ IsNew(1)
    /\ vms[1].fn.size = 4
    /\ vms[1].regs = <<null, null, null, null>>

-----------------------------------------------------------------------------
(* Claims about destinations and temporaries during generation *)

\* the destination (gen.lhs) in force for the call at position k of the call
\* stack: the one set by the nearest caller that is inside a withLHS
DestFrames(k) == {j \in 1..(k - 1) : ctl[j].op \in {"add_r", "let_v", "set_v"}}
DestAt(k) ==
    IF DestFrames(k) = {} THEN null
    ELSE LET j == Max(DestFrames(k))
         IN IF ctl[j].op = "add_r" THEN ctl[j].t ELSE ctl[j].l

\* the instructions a step appends to the code
Emitted == {gen'.code[n] : n \in (Len(gen.code) + 1)..Len(gen'.code)}

\* C16: while the left operand of an Add generated with destination D is
\* being generated, no addition inside it emits an ADD that writes D (the
\* claim for the instructions that compute the left operand's value; stores
\* of a Let or Set inside the operand write the variable the tree names).
C16_LeftOperandNeverWritesDestination ==
    [][\A k \in 1..(Len(ctl) - 1) :
          (ctl[k].op = "add_l" /\ DestAt(k) # null /\ Top.op = "add_r") =>
              \A instr \in Emitted : instr.args[1] # DestAt(k)]_vars

\* C17: from the moment an Add's left operand value sits in a temporary
\* until that Add's ADD is emitted, no instruction emitted for the right
\* operand writes that temporary; and when the right operand's value sits in
\* a temporary, the instruction that wrote it is the one just before the ADD.
C17_TemporaryNotOverwrittenWhileLive ==
    /\ [][\A k \in 1..(Len(ctl) - 1) :
            (ctl[k].op = "add_r" /\ ctl[k].l.type = "temp") =>
                \A instr \in Emitted : instr.args[1] # ctl[k].l]_vars
    /\ [][(ctl # <<>> /\ Top.op = "add_r" /\ top(gen).type = "temp") =>
            /\ gen.code # <<>>
            /\ gen.code[Len(gen.code)].args[1] = top(gen)
            /\ top(gen) # Top.l]_vars

\* ADD t0, t0, t1 was emitted: the left value waited in t0 while the right
\* operand was computed into t1
C17_Witness ==
    /\ frames # <<>>
    /\ \E n \in 1..Len(gen.code) :
          /\ gen.code[n] = [instr |-> "ADD", args |-> <<temp(0), temp(0), temp(1)>>]
          /\ n > 2
          /\ gen.code[n - 1].args[1] = temp(1)
          /\ gen.code[n - 2].args[1] = temp(0)

\* C18: every Let appends its name to the locals table and gets the next
\* index, the table only grows, and in the frame compile returns an operand
\* that was local k is register k below the number of locals while an
\* operand that was temporary t is register (final number of locals) + t, so
\* never the register of a local, whenever that local was declared.
C18_LocalsBelowTemporaries ==
    /\ []((ctl = <<>> /\ frames # <<>> /\ err = "") =>
            LET f == LastFrame
            IN /\ f.locals = gen.locals
               /\ Len(f.code) = Len(gen.code)
               /\ \A n \in 1..Len(f.code) : \A j \in 1..Len(f.code[n].args) :
                     LET x == gen.code[n].args[j]
                         r == f.code[n].args[j]
                     IN /\ x.type = "local" => (r = x.index /\ r < Len(f.locals))
                        /\ x.type = "temp" =>
                              (r = Len(f.locals) + x.index /\ r >= Len(f.locals)))
    /\ [][(Doing("let") /\ err' = "") =>
            /\ gen'.locals = Append(gen.locals, Top.node.args[1])
            /\ gen'.lhs = local(Len(gen.locals))]_vars
    /\ [][ctl' # <<>> =>
            (gen' = CodeGen \/ (/\ Len(gen'.locals) >= Len(gen.locals)
                                /\ \A i \in 1..Len(gen.locals) :
                                      gen'.locals[i] = gen.locals[i]))]_vars

\* testFn: ADD t0, a, b was emitted with two locals declared; c came later,
\* and t0 is register 3
C18_Witness ==
    /\ node = testFn
    /\ ctl = <<>> /\ frames # <<>>
    /\ LastFrame.locals = <<"a", "b", "c">>
    /\ gen.code[4] = [instr |-> "ADD", args |-> <<temp(0), local(0), local(1)>>]
    /\ LastFrame.code[4] = mkInstr("ADD", <<3, 0, 1>>)

-----------------------------------------------------------------------------
(* Claims about Block and Set *)

\* a Block generates its children in list order, discards the location of
\* every child but the last, which it returns, and an empty Block fails
BlockGeneratesInOrder ==
    /\ [][Doing("block") =>
            IF Top.node.args[1] = <<>>
            THEN err' = "Empty block" /\ ctl' = <<>> /\ frames' = frames
            ELSE ctl'[Len(ctl')] = Call(Top.node.args[1][1]) /\ gen' = gen]_vars
    /\ [][(ctl # <<>> /\ Top.op = "block_i") =>
            IF Top.i < Len(Top.node.args[1])
            THEN /\ ctl'[Len(ctl')] = Call(Top.node.args[1][Top.i + 1])
                 /\ gen' = pop(gen)
            ELSE gen' = gen /\ ctl' = Rest]_vars

\* the value direct evaluation gives the last child of the Block that is the
\* value of the second statement of program n
LastChildValue(n) ==
    LET body == n.args[1][2].args[2].args[1]
        before == EvalBody(SubSeq(body, 1, Len(body) - 1), 1,
                           Eval(n.args[1][1], emptyEnv))
    IN Eval(body[Len(body)], before.env).val

C20_SetAllocatesNothing ==
    /\ [][(Doing("set") /\ err' = "") =>
            LET x == Top.node.args[1]
            IN /\ gen'.locals = gen.locals
               /\ gen'.tempCount = gen.tempCount
               /\ gen'.lhs.type = "local"
               /\ gen.locals[gen'.lhs.index + 1] = x
               /\ ctl'[Len(ctl') - 1].l = gen'.lhs]_vars
    /\ [][(ctl # <<>> /\ Top.op = "set_v") =>
            /\ gen'.locals = gen.locals
            /\ gen'.tempCount = gen.tempCount
            /\ top(gen') = Top.l
            /\ Len(gen'.code) <= Len(gen.code) + 1
            /\ \A instr \in Emitted : instr.args[1] = Top.l]_vars
    /\ [](\A k \in 1..Len(ctl) : ctl[k].op = "set_v" =>
            /\ ctl[k].l.index < Len(gen.locals)
            /\ gen.locals[ctl[k].l.index + 1] = ctl[k].node.args[1])
    /\ [][gen'.locals # gen.locals => (Doing("let") \/ gen' = CodeGen)]_vars

\* a = (let b = 3): b is declared while the Set is generated, a keeps
\* register 0 and receives the value with MOVE 0, 1
C20_Witness ==
    /\ ctl = <<>> /\ frames # <<>>
    /\ node = block(<<leti("a", con(num(2))), set("a", leti("b", con(num(3))))>>)
    /\ LastFrame.locals = <<"a", "b">>
    /\ LastFrame.size = 2
    /\ LastFrame.code[Len(LastFrame.code)] = mkInstr("MOVE", <<0, 1>>)

-----------------------------------------------------------------------------
(* Claims about the instructions Let and Set emit *)

\* C21: when the value e of Let(x, e) or Set(x, e) has been generated, the
\* node emits nothing if e's result is already in x's register (so for
\* Set(x, Var(x)), and for an Add, whose ADD wrote x), exactly one LOADK x, k
\* if e is a Constant and exactly one MOVE x, y if e is a Var of another
\* local y; generating a Var emits nothing and starting a Set emits nothing.
C21_MoveElision ==
    /\ [][(ctl # <<>> /\ Top.op \in {"let_v", "set_v"}) =>
            LET e == Top.node.args[2]
                l == Top.l
                v == top(gen)
            IN /\ v = l => gen'.code = gen.code
               /\ e.name = "const" =>
                     /\ v.type = "const"
                     /\ gen'.code = Append(gen.code,
                                          [instr |-> "LOADK", args |-> <<l, v>>])
               /\ e.name = "var" =>
                     /\ v.type = "local"
                     /\ gen.locals[v.index + 1] = e.args[1]
                     /\ IF v.index = l.index THEN gen'.code = gen.code
                        ELSE gen'.code = Append(gen.code,
                                               [instr |-> "MOVE", args |-> <<l, v>>])
               /\ e.name = "add" =>
                     /\ v = l
                     /\ gen'.code = gen.code
                     /\ gen.code[Len(gen.code)].instr = "ADD"
                     /\ gen.code[Len(gen.code)].args[1] = l]_vars
    /\ [][(Doing("var") \/ Doing("set") \/ Doing("let")) => gen'.code = gen.code]_vars

\* a = 2 + 2; b = 3 + a; a = a: two ADDs into the locals and nothing else
C21_Witness ==
    /\ ctl = <<>> /\ frames # <<>>
    /\ node = block(<<testStmts[1], testStmts[2], set("a", vari("a"))>>)
    /\ LastFrame.code = <<mkInstr("ADD", <<0, -1, -1>>), mkInstr("ADD", <<1, -2, 0>>)>>

-----------------------------------------------------------------------------
(* Claims about the effect of one step on the VM *)

\* C22: a step of MOVE, LOADK or ADD that succeeds raises pc by exactly 1,
\* writes the destination register (the operand's value, the pool entry, the
\* sum) and leaves every other register, the register count and the frame
\* as they were; a MOVE leaves its source as it was unless it is the
\* destination.
C22_StepWritesDestinationOnly ==
    [][\A v \in 1..Len(vms) :
        LET vm == vms[v]
            instr == getInstr(vm.fn, vm.pc)
        IN (calls'[v] = calls[v] + 1 /\ ret'[v] = "true") =>
            /\ instr # null
            /\ vms'[v].pc = vm.pc + 1
            /\ vms'[v].fn = vm.fn
            /\ Len(vms'[v].regs) = Len(vm.regs)
            /\ \A i \in 1..Len(vm.regs) :
                  i # instr.args[1] + 1 => vms'[v].regs[i] = vm.regs[i]
            /\ vms'[v].regs[instr.args[1] + 1] =
                  CASE instr.name = "MOVE" -> Denoted(vm, instr.args[2])
                    [] instr.name = "LOADK" -> vm.fn.consts[-instr.args[2]]
                    [] instr.name = "ADD" ->
                         Num(Denoted(vm, instr.args[2]).value
                               + Denoted(vm, instr.args[3]).value)]_vars

\* LOADK 0, -1 then MOVE 1, 0: register 0 still holds the constant
C22_Witness ==
    /\ vms # <<>>
    /\ vms[1].fn.code = <<mkInstr("LOADK", <<0, -1>>), mkInstr("MOVE", <<1, 0>>)>>
    /\ vms[1].pc = 2 /\ ret[1] = "true"
    /\ vms[1].regs = <<HandConsts[1], HandConsts[1]>>

\* C23: a step() taken with pc at or past the number of instructions returns
\* false and leaves the VM as it was; once step() has returned false, every
\* later step() returns false and the VM never changes.
C23_HaltedIsFinal ==
    [][\A v \in 1..Len(vms) :
        /\ (calls'[v] = calls[v] + 1 /\ vms[v].pc >= Len(vms[v].fn.code)) =>
              (ret'[v] = "false" /\ vms'[v] = vms[v] /\ verr'[v] = verr[v])
        /\ Halted(v) => (ret'[v] = "false" /\ vms'[v] = vms[v])
        /\ (calls'[v] = calls[v] + 1 /\ ret'[v] = "false") =>
              vms[v].pc >= Len(vms[v].fn.code)]_vars

\* the two-statement program stepped twice more after its halt
C23_Witness ==
    /\ node = C2_Node
    /\ vms # <<>> /\ Halted(1)
    /\ calls[1] = Len(vms[1].fn.code) + MaxExtraCalls
    /\ MaxExtraCalls >= 2
    /\ vms[1].regs = <<Num(4), Num(7)>>

\* an operand of ADD that is in range and is not a Number
NonNumberOperand(vm, instr) ==
    /\ instr.name = "ADD"
    /\ ReadsInRange(vm.fn, instr)
    /\ \E j \in {2, 3} : checkNum(Denoted(vm, instr.args[j])) # ""

\* C24: a step() that fails had an operand out of range or a non-Number ADD
\* operand, and leaves pc and every register exactly as they were; the next
\* step() of that VM fails again with the same error.
C24_FailedStepChangesNothing ==
    [][\A v \in 1..Len(vms) :
        LET vm == vms[v]
            instr == getInstr(vm.fn, vm.pc)
        IN calls'[v] = calls[v] + 1 =>
            /\ ret'[v] = "throw" =>
                  /\ vms'[v] = vm
                  /\ instr # null
                  /\ ~AllInRange(vm.fn, instr) \/ NonNumberOperand(vm, instr)
                  /\ verr'[v] \in IndexErrors \cup TypeErrors
            /\ (instr # null /\ NonNumberOperand(vm, instr)) =>
                  (ret'[v] = "throw" /\ verr'[v] \in TypeErrors)
            /\ ret[v] = "throw" => (ret'[v] = "throw" /\ verr'[v] = verr[v])]_vars

\* LOADK 0, -1 succeeded, then ADD 0, true, 2 failed twice in the same way
C24_Witness ==
    /\ vms # <<>>
    /\ vms[1].fn.code = <<mkInstr("LOADK", <<0, -1>>), mkInstr("ADD", <<0, -2, -1>>)>>
    /\ calls[1] = 3
    /\ ret[1] = "throw" /\ verr[1] = "Expected a number"
    /\ vms[1].pc = 1
    /\ vms[1].regs = <<HandConsts[1], null>>

====
